---- MODULE Spec2Model ----
(***************************************************************************)
(* State-machine model of the user-space WireGuard endpoint:               *)
(*   src/src/main.rs       process entry point and exit status             *)
(*   src/src/wireguard.rs  WireGuard::run: startup, the four tasks and     *)
(*                         the route stack                                   *)
(*   src/src/peer.rs       Peer: the three packet-handling operations      *)
(* The tunnel engine (boringtun Tunn), the UDP socket, the tun device and  *)
(* the route manager are external: every call to them returns one of the   *)
(* outcomes its signature allows, chosen nondeterministically.             *)
(***************************************************************************)
EXTENDS Integers, Sequences, FiniteSets, TLC

\* Bounds of the model (not program constants).
\* MaxDrain: how many consecutive empty-input decapsulate calls of one
\* invocation the engine may answer with WriteToNetwork.
MaxDrain == 1
\* MaxRetry: how many format_handshake_initiation calls of one invocation the
\* engine may answer with Err(ConnectionExpired).
MaxRetry == 1

None == "None"

\* Socket addresses a datagram can come from; "a3" is configured for no peer.
Addrs == {"a1", "a2", "a3"}

\* Destinations of the packets read from the interface, each named by the
\* range it lies in; "n4" lies in no configured range.
Dests == {"n1", "n2", "n3", "n4"}

\* TunnResult, with the two error kinds peer.rs tells apart.
WriteToNetwork == "WriteToNetwork"
WriteToTunnelV4 == "WriteToTunnelV4"
WriteToTunnelV6 == "WriteToTunnelV6"
Done == "Done"
ErrConnectionExpired == "ErrConnectionExpired"
ErrOther == "ErrOther"
TunnResult ==
  {WriteToNetwork, WriteToTunnelV4, WriteToTunnelV6, Done, ErrConnectionExpired, ErrOther}

\* The tasks WireGuard::run spawns, in the order it pushes them on `tasks`.
TaskOrder == <<"signal", "socket", "tun", "routine">>
Tasks == {TaskOrder[i] : i \in 1..Len(TaskOrder)}
Handlers == {"socket", "tun", "routine"}

\* struct Peer as the configuration parser leaves it.
PeerCfg(pk, ep, has, ips) ==
  [public_key |-> pk, endpoint |-> ep, has_allowed_ips |-> has, allowed_ips |-> ips]

\* struct Interface as the configuration parser leaves it (present: the
\* Option<Interface> of WireGuard).
InterfaceCfg(present, key, addr) ==
  [present |-> present, private_key |-> key, address |-> addr]

\* The configurations the model starts from.
PeerLists ==
  { <<>>,
    <<PeerCfg(TRUE, "a1", TRUE, <<"n1">>)>>,
    <<PeerCfg(TRUE, None, TRUE, <<"n1", "n2">>), PeerCfg(TRUE, "a2", TRUE, <<"n2", "n3">>)>>,
    <<PeerCfg(TRUE, "a1", TRUE, <<"n1">>), PeerCfg(FALSE, "a2", TRUE, <<"n2">>)>>,
    <<PeerCfg(TRUE, "a1", TRUE, <<"n1">>), PeerCfg(TRUE, "a2", FALSE, <<>>)>> }

Interfaces ==
  { InterfaceCfg(TRUE, TRUE, TRUE), InterfaceCfg(FALSE, FALSE, FALSE),
    InterfaceCfg(TRUE, FALSE, TRUE), InterfaceCfg(TRUE, TRUE, FALSE) }

VARIABLES
  interface,             \* WireGuard.interface
  peers,                 \* WireGuard.peers
  route_stack,           \* WireGuard.route_stack
  session,               \* per peer: which of send_socket, send_tun, tunn are set
  endpoint_peer_map,     \* run: endpoint -> peer
  allowed_ips_peer_map,  \* run: list of (allowed range, peer)
  routine_peers,         \* run: the housekeeping list
  parse,                 \* WireGuard::from_content: its input, position and locals
  runPc,                 \* position of WireGuard::run
  pIdx,                  \* run: index of the peer the startup loop is at
  aIdx,                  \* run: index of the allowed range the route loop is at
  installed,             \* history: routes added to the OS, in order
  removed,               \* history: route removals attempted, in order
  taskPc,                \* position of each spawned task
  op,                    \* per loop: the handler invocation in progress
  lock,                  \* per peer: the task holding the Mutex<Tunn> guard
  sockSrc,               \* socket loop: source address of the datagram in hand
  tunDst,                \* interface loop: destination address of the packet in hand
  rIdx,                  \* housekeeping loop: position in routine_peers
  interrupt,             \* an interrupt signal has been delivered
  winner,                \* the task select_all reported
  runResult,             \* what run returned
  error,                 \* the error run returned
  exitCode               \* exit status of the process

vars ==
  <<interface, peers, parse, route_stack, session, endpoint_peer_map, allowed_ips_peer_map,
    routine_peers, runPc, pIdx, aIdx, installed, removed, taskPc, op, lock, sockSrc,
    tunDst, rIdx, interrupt, winner, runResult, error, exitCode>>

cfgVars == <<interface, peers, parse>>
startupVars ==
  <<route_stack, session, endpoint_peer_map, allowed_ips_peer_map, routine_peers,
    pIdx, aIdx, installed>>
taskVars == <<taskPc, op, lock, sockSrc, tunDst, rIdx, interrupt>>

----------------------------------------------------------------------------
\* Peer::new: nothing is wired yet.
PeerNew == [send_socket |-> FALSE, send_tun |-> FALSE, tunn |-> FALSE]

\* No handler invocation in progress.
IdleOp == [peer |-> 0, log |-> <<>>, status |-> "idle", n |-> 0]

\* One entry of an invocation's log: an engine call, a network send or an
\* interface write; `of` is the log position of the engine call whose bytes a
\* send or write carries.
Ev(c, a, r, o) == [call |-> c, arg |-> a, res |-> r, of |-> o]

EngineCalls == {"decapsulate", "encapsulate", "update_timers", "format_handshake_initiation"}

\* from_content has returned Ok. An Option local is <<>> or <<value>>.
ParseReturned ==
  [pc |-> "ok", content |-> <<>>, pos |-> 1, current_section |-> None,
   current_peer |-> <<>>, interface |-> None]

Init ==
  /\ interface \in Interfaces
  /\ peers \in PeerLists
  /\ parse = ParseReturned
  /\ route_stack = <<>>
  /\ session = [i \in 1..Len(peers) |-> PeerNew]
  /\ endpoint_peer_map = [a \in {} |-> 0]
  /\ allowed_ips_peer_map = <<>>
  /\ routine_peers = <<>>
  /\ runPc = "start"
  /\ pIdx = 0
  /\ aIdx = 0
  /\ installed = <<>>
  /\ removed = <<>>
  /\ taskPc = [t \in Tasks |-> "unspawned"]
  /\ op = [t \in Handlers |-> IdleOp]
  /\ lock = [i \in 1..Len(peers) |-> None]
  /\ sockSrc = None
  /\ tunDst = None
  /\ rIdx = 0
  /\ interrupt = FALSE
  /\ winner = None
  /\ runResult = None
  /\ error = None
  /\ exitCode = None

----------------------------------------------------------------------------
\* main: the exit status for what run returned. An Err returned from main
\* exits with 1, Ok with 0, a panic with 101.
MainExit(result) ==
  CASE result = "ok" -> 0
    [] result = "err" -> 1
    [] OTHER -> 101

\* run returns `result` to main, which returns in turn; the runtime is dropped
\* and every task that has not completed is cancelled.
ProcessExit(result) ==
  /\ runPc' = "returned"
  /\ runResult' = result
  /\ exitCode' = MainExit(result)
  /\ taskPc' = [t \in Tasks |->
                  IF taskPc[t] \in {"done", "unspawned"} THEN taskPc[t] ELSE "cancelled"]
  /\ op' = [t \in Handlers |-> IdleOp]
  /\ lock' = [i \in DOMAIN lock |-> None]
  /\ sockSrc' = None
  /\ tunDst' = None
  /\ rIdx' = 0
  /\ UNCHANGED interrupt

\* Mutation: the tasks are spawned before the step that fails.
StartupFail_AfterSpawn(msg) ==
  /\ error' = msg
  /\ runPc' = "returned"
  /\ runResult' = "err"
  /\ exitCode' = MainExit("err")
  /\ taskPc' = [t \in Tasks |-> "cancelled"]
  /\ UNCHANGED <<op, lock, sockSrc, tunDst, rIdx, interrupt, removed, winner>>

\* A `?` of the startup code: run returns the error at once.
StartupFail(msg) ==
  /\ error' = msg
  /\ ProcessExit("err")
  /\ UNCHANGED <<removed, winner>>

\* self.interface.as_ref().ok_or("Missing interface")
RunInterface ==
  /\ runPc = "start"
  /\ IF interface.present
       THEN /\ runPc' = "route_manager"
            /\ UNCHANGED <<removed, winner, runResult, error, exitCode, taskVars>>
       ELSE StartupFail("Missing interface")
  /\ UNCHANGED <<cfgVars, startupVars>>

\* RouteManager::new
RunRouteManager ==
  /\ runPc = "route_manager"
  /\ \E ok \in BOOLEAN :
       IF ok
         THEN /\ runPc' = "bind_addr"
              /\ UNCHANGED <<removed, winner, runResult, error, exitCode, taskVars>>
         ELSE StartupFail("Create route manager failed")
  /\ UNCHANGED <<cfgVars, startupVars>>

\* The bind address: find_route for 0.0.0.0, its if_index, if_index_to_addr.
BindAddrOutcomes ==
  {"ok", "Find default route failed", "Default route not found", "Get bind ip failed",
   "Interface address not found"}

RunBindAddr ==
  /\ runPc = "bind_addr"
  /\ \E r \in BindAddrOutcomes :
       IF r = "ok"
         THEN /\ runPc' = "bind"
              /\ UNCHANGED <<removed, winner, runResult, error, exitCode, taskVars>>
         ELSE StartupFail(r)
  /\ UNCHANGED <<cfgVars, startupVars>>

\* UdpSocket::bind
RunBind ==
  /\ runPc = "bind"
  /\ \E ok \in BOOLEAN :
       IF ok
         THEN /\ runPc' = "address"
              /\ UNCHANGED <<removed, winner, runResult, error, exitCode, taskVars>>
         ELSE StartupFail("UdpSocket bind failed")
  /\ UNCHANGED <<cfgVars, startupVars>>

\* interface.address.ok_or("Interface missing address")
RunAddress ==
  /\ runPc = "address"
  /\ IF interface.address
       THEN /\ runPc' = "tun_dev"
            /\ UNCHANGED <<removed, winner, runResult, error, exitCode, taskVars>>
       ELSE StartupFail("Interface missing address")
  /\ UNCHANGED <<cfgVars, startupVars>>

\* DeviceBuilder ... build_async, then the three empty collections
RunTunDev ==
  /\ runPc = "tun_dev"
  /\ \E ok \in BOOLEAN :
       IF ok
         THEN /\ runPc' = "peer"
              /\ pIdx' = 1
              /\ UNCHANGED <<removed, winner, runResult, error, exitCode, taskVars>>
         ELSE StartupFail("Create tun device failed") /\ UNCHANGED pIdx
  /\ UNCHANGED <<cfgVars, route_stack, session, endpoint_peer_map, allowed_ips_peer_map,
                 routine_peers, aIdx, installed>>

\* DashMap::insert
MapInsert(m, k, v) == [a \in DOMAIN m \cup {k} |-> IF a = k THEN v ELSE m[a]]

\* Mutation: the engine instance is built but not stored in the session.
SetTunn_Skipped(s, i) == s

\* Peer::set_tunn on session i.
SetTunn(s, i) == [s EXCEPT ![i].tunn = TRUE]

\* What can go wrong between Tunn::new and the route loop of one peer.
PeerSetupOutcomes ==
  {"ok", "Create tunn failed", "Get tun dev interface index failed",
   "Get tun dev interface name failed"}

\* The body of `for mut peer in self.peers.take().unwrap()` up to the route
\* loop; when the peers are exhausted the loop ends.
RunPeer ==
  /\ runPc = "peer"
  /\ IF pIdx > Len(peers)
       THEN /\ runPc' = "spawn"
            /\ UNCHANGED <<session, endpoint_peer_map, aIdx, removed, winner, runResult,
                           error, exitCode, taskVars>>
       ELSE LET p == peers[pIdx]
                wired == [session EXCEPT ![pIdx].send_socket = TRUE, ![pIdx].send_tun = TRUE]
                built == SetTunn(wired, pIdx)
                mapped == IF p.endpoint # None
                            THEN MapInsert(endpoint_peer_map, p.endpoint, pIdx)
                            ELSE endpoint_peer_map
            IN \E r \in PeerSetupOutcomes :
                 CASE ~interface.private_key \/ ~p.public_key \/ r = "Create tunn failed" ->
                        /\ session' = wired
                        /\ StartupFail(IF ~interface.private_key
                                         THEN "Missing interface private key"
                                         ELSE IF ~p.public_key THEN "Missing peer public key"
                                                               ELSE r)
                        /\ UNCHANGED <<endpoint_peer_map, aIdx>>
                   [] interface.private_key /\ p.public_key /\ r # "Create tunn failed"
                        /\ ~p.has_allowed_ips ->
                        \* allowed_ips.take().unwrap() on None
                        /\ session' = built
                        /\ ProcessExit("panic")
                        /\ UNCHANGED <<endpoint_peer_map, aIdx, removed, winner, error>>
                   [] interface.private_key /\ p.public_key /\ p.has_allowed_ips
                        /\ r \in {"Get tun dev interface index failed",
                                  "Get tun dev interface name failed"} ->
                        /\ session' = built
                        /\ endpoint_peer_map' = mapped
                        /\ StartupFail(r)
                        /\ UNCHANGED aIdx
                   [] OTHER ->
                        /\ session' = built
                        /\ endpoint_peer_map' = mapped
                        /\ aIdx' = 1
                        /\ runPc' = "route"
                        /\ UNCHANGED <<removed, winner, runResult, error, exitCode, taskVars>>
  /\ UNCHANGED <<cfgVars, route_stack, allowed_ips_peer_map, routine_peers, pIdx, installed>>

\* One turn of `for allowed_ip in allowed_ips`: route_manager.add, then the
\* push on route_stack and on the range list; after the last range the peer is
\* pushed on routine_peers and the peer loop goes on.
RunRoute ==
  /\ runPc = "route"
  /\ LET ips == peers[pIdx].allowed_ips
     IN IF aIdx > Len(ips)
          THEN /\ routine_peers' = Append(routine_peers, pIdx)
               /\ pIdx' = pIdx + 1
               /\ runPc' = "peer"
               /\ UNCHANGED <<route_stack, allowed_ips_peer_map, aIdx, installed, removed,
                              winner, runResult, error, exitCode, taskVars>>
          ELSE \E ok \in BOOLEAN :
                 IF ok
                   THEN /\ route_stack' = Append(route_stack, ips[aIdx])
                        /\ installed' = Append(installed, ips[aIdx])
                        /\ allowed_ips_peer_map' =
                             Append(allowed_ips_peer_map, <<ips[aIdx], pIdx>>)
                        /\ aIdx' = aIdx + 1
                        /\ UNCHANGED <<routine_peers, pIdx, runPc, removed, winner,
                                       runResult, error, exitCode, taskVars>>
                   ELSE /\ StartupFail("Add route failed")
                        /\ UNCHANGED <<route_stack, allowed_ips_peer_map, routine_peers,
                                       pIdx, aIdx, installed>>
  /\ UNCHANGED <<cfgVars, session, endpoint_peer_map>>

\* The four tokio::spawn calls, taken as one step: nothing run does between
\* them can fail or be seen by a task. Each task starts at its first await.
RunSpawn ==
  /\ runPc = "spawn"
  /\ runPc' = "select"
  /\ taskPc' = [t \in Tasks |->
                  CASE t = "signal" -> "wait"
                    [] t = "routine" -> "sleep"
                    [] OTHER -> "recv"]
  /\ UNCHANGED <<cfgVars, startupVars, removed, winner, runResult, error, exitCode, op,
                 lock, sockSrc, tunDst, rIdx, interrupt>>

Reverse(s) == [i \in 1..Len(s) |-> s[Len(s) + 1 - i]]

\* select_all polls the join handles in order and reports the first that is
\* ready.
FirstDone ==
  LET ready == {i \in 1..Len(TaskOrder) : taskPc[TaskOrder[i]] = "done"}
  IN IF ready = {} THEN None
     ELSE TaskOrder[CHOOSE i \in ready : \A j \in ready : i <= j]

\* Mutation: run waits for all the tasks (join_all).
RaceDecided_All == \A t \in Tasks : taskPc[t] = "done"

\* select_all(tasks).await resolves as soon as one task has completed.
RaceDecided == \E t \in Tasks : taskPc[t] = "done"

\* Mutation: the routes are removed from the bottom of the stack.
Removals_Fifo(stack, results) ==
  [i \in 1..Len(stack) |-> [route |-> stack[i], ok |-> results[i]]]

\* The removals `while let Some(route) = self.route_stack.pop()` attempts for
\* a stack, with the result of each delete.
Removals(stack, results) ==
  [i \in 1..Len(stack) |-> [route |-> Reverse(stack)[i], ok |-> results[i]]]

\* select_all(tasks).await resolves; the routes are popped and deleted, run
\* returns Ok(()) and main returns. The code from the await to the return has
\* no await and shares nothing with the tasks, so it is one step; each delete
\* succeeds or fails.
RunShutdown ==
  /\ runPc = "select"
  /\ RaceDecided
  /\ winner' = FirstDone
  /\ \E results \in [1..Len(route_stack) -> BOOLEAN] :
       removed' = Removals(route_stack, results)
  /\ route_stack' = <<>>
  /\ ProcessExit("ok")
  /\ UNCHANGED <<error, cfgVars, session, endpoint_peer_map, allowed_ips_peer_map, routine_peers,
                 pIdx, aIdx, installed>>

----------------------------------------------------------------------------
\* Mutation: one lock guards the engines of all peers.
LockFree_Global(p) == \A q \in DOMAIN lock : lock[q] = None

\* Mutation: the engine is used without waiting for the lock.
LockFree_Always(p) == TRUE

\* tunn.lock().await completes when no guard of the peer's Mutex<Tunn> is alive.
LockFree(p) == lock[p] = None

\* The handler of task t moves to pc with the given log.
Goto(t, pc, log, n) ==
  /\ taskPc' = [taskPc EXCEPT ![t] = pc]
  /\ op' = [op EXCEPT ![t] = [peer |-> op[t].peer, log |-> log, status |-> "run", n |-> n]]

\* The handler of task t returns Ok(()) or Err.
Return(t, status, log) ==
  /\ taskPc' = [taskPc EXCEPT ![t] = "ret"]
  /\ op' = [op EXCEPT ![t] = [peer |-> op[t].peer, log |-> log, status |-> status, n |-> 0]]

\* A loop invokes a handler on peer p.
Invoke(t, p, pc) ==
  /\ taskPc' = [taskPc EXCEPT ![t] = pc]
  /\ op' = [op EXCEPT ![t] = [peer |-> p, log |-> <<>>, status |-> "run", n |-> 0]]

\* Mutation: the endpoint is not looked at before sending.
CanSend_AnyEndpoint(p) == session[p].send_socket

\* self.send_socket.clone().ok_or(..)? and self.endpoint.ok_or(..)?
CanSend(p) == session[p].send_socket /\ peers[p].endpoint # None

\* Mutation: WriteToTunnelV6 is written to the interface like WriteToTunnelV4.
SocketMatch_V6Written(r) ==
  CASE r = WriteToNetwork -> "network"
    [] r \in {WriteToTunnelV4, WriteToTunnelV6} -> "tunnel"
    [] r = Done -> "ignore"
    [] OTHER -> "error"

\* The arms of `match result` in handle_socket_packet.
SocketMatch(r) ==
  CASE r = WriteToNetwork -> "network"
    [] r = WriteToTunnelV4 -> "tunnel"
    [] r \in {Done, WriteToTunnelV6} -> "ignore"
    [] OTHER -> "error"

\* Mutation: WriteToTunnelV4 is ignored as in handle_socket_packet's last arms.
TunMatch_V4Ignored(r) ==
  CASE r = WriteToNetwork -> "network"
    [] r \in {Done, WriteToTunnelV4} -> "ignore"
    [] OTHER -> "error"

\* The arms of `match result` in handle_tun_packet.
TunMatch(r) ==
  CASE r = WriteToNetwork -> "network"
    [] r = Done -> "ignore"
    [] OTHER -> "error"

\* Mutation: an Err other than ConnectionExpired is swallowed.
RoutineMatch_ErrIgnored(r) ==
  CASE r = WriteToNetwork -> "network"
    [] r = ErrConnectionExpired -> "handshake"
    [] r \in {Done, ErrOther} -> "ignore"
    [] OTHER -> "error"

\* Mutation: ConnectionExpired is reported like every other Err.
RoutineMatch_ExpiredFails(r) ==
  CASE r = WriteToNetwork -> "network"
    [] r = Done -> "ignore"
    [] OTHER -> "error"

\* The arms of `match result` in handle_routine_task_result.
RoutineMatch(r) ==
  CASE r = WriteToNetwork -> "network"
    [] r = ErrConnectionExpired -> "handshake"
    [] r = ErrOther -> "error"
    [] r = Done -> "ignore"
    [] OTHER -> "error"

\* Mutation: the drain never goes on after an empty-input decapsulate.
DrainContinues_Never(r) == FALSE

\* The pattern of the drain loops: `while let TunnResult::WriteToNetwork(..)`.
DrainContinues(r) == r = WriteToNetwork

\* Mutation: the handler goes on after a failed send.
SendDone_ErrorIgnored(t, next) ==
  \E ok \in BOOLEAN :
    LET p == op[t].peer
        log == Append(op[t].log,
                      Ev("send_to", peers[p].endpoint, IF ok THEN "ok" ELSE "err",
                         Len(op[t].log)))
    IN IF next = "ret" THEN Return(t, "ok", log) ELSE Goto(t, next, log, op[t].n)

\* send_socket.send_to(packet, &endpoint).await completes for the handler of
\* task t; on success the handler goes on at `next`, on failure `?` returns.
SendDone(t, next) ==
  \E ok \in BOOLEAN :
    LET p == op[t].peer
        log == Append(op[t].log,
                      Ev("send_to", peers[p].endpoint, IF ok THEN "ok" ELSE "err",
                         Len(op[t].log)))
    IN IF ok
         THEN IF next = "ret" THEN Return(t, "ok", log) ELSE Goto(t, next, log, op[t].n)
         ELSE Return(t, "err", log)

\* One turn of a drain loop: lock, decapsulate with empty input; on
\* WriteToNetwork the guard stays alive for the body of the loop.
Drain(t) ==
  /\ taskPc[t] = "drain"
  /\ LET p == op[t].peer
     IN /\ LockFree(p)
        /\ \E r \in TunnResult :
             /\ r = WriteToNetwork => op[t].n < MaxDrain
             /\ LET log == Append(op[t].log, Ev("decapsulate", "empty", r, 0))
                IN IF DrainContinues(r)
                     THEN /\ Goto(t, "drain_send", log, op[t].n + 1)
                          /\ lock' = [lock EXCEPT ![p] = t]
                     ELSE /\ Return(t, "ok", log)
                          /\ UNCHANGED lock

\* Mutation: the guard of the drain turn outlives the turn.
DrainSend_KeepsGuard(t) ==
  /\ taskPc[t] = "drain_send"
  /\ SendDone(t, "drain")
  /\ UNCHANGED lock

\* The body of a drain loop: the send completes and the guard is dropped, at
\* the end of the turn or by the `?`.
DrainSend(t) ==
  /\ taskPc[t] = "drain_send"
  /\ SendDone(t, "drain")
  /\ lock' = [lock EXCEPT ![op[t].peer] = None]

\* Mutation: the error of the handler ends the loop (`?` in the loop body).
LoopAfterReturn_Propagate(status, next) == IF status = "err" THEN "done" ELSE next

\* What a loop does with the Result of its handler: print the error, or
\* nothing.
LoopAfterReturn(status, next) == IF status = "err" THEN "report" ELSE next

----------------------------------------------------------------------------
\* The signal task: ctrl_c().await resolves once an interrupt signal has been
\* delivered to the process.
Interrupt ==
  /\ taskPc["signal"] = "wait"
  /\ ~interrupt
  /\ interrupt' = TRUE
  /\ UNCHANGED <<cfgVars, startupVars, runPc, removed, winner, runResult, error, exitCode,
                 taskPc, op, lock, sockSrc, tunDst, rIdx>>

SignalTask ==
  /\ taskPc["signal"] = "wait"
  /\ interrupt
  /\ taskPc' = [taskPc EXCEPT !["signal"] = "done"]
  /\ UNCHANGED <<cfgVars, startupVars, runPc, removed, winner, runResult, error, exitCode,
                 op, lock, sockSrc, tunDst, rIdx, interrupt>>

----------------------------------------------------------------------------
\* The socket receive loop: recv_from returns a datagram or fails.
SocketRecv ==
  /\ taskPc["socket"] = "recv"
  /\ \/ \E src \in Addrs :
          /\ sockSrc' = src
          /\ taskPc' = [taskPc EXCEPT !["socket"] = "dispatch"]
     \/ /\ taskPc' = [taskPc EXCEPT !["socket"] = "done"]
        /\ UNCHANGED sockSrc
  /\ UNCHANGED <<cfgVars, startupVars, runPc, removed, winner, runResult, error, exitCode,
                 op, lock, tunDst, rIdx, interrupt>>

\* Mutation: a datagram of an unknown source goes to the first peer.
Lookup_Fallback(src) ==
  IF src \in DOMAIN endpoint_peer_map THEN endpoint_peer_map[src]
  ELSE IF Len(peers) > 0 THEN 1 ELSE 0

\* endpoint_peer_map.get(&endpoint)
Lookup(src) == IF src \in DOMAIN endpoint_peer_map THEN endpoint_peer_map[src] ELSE 0

SocketDispatch ==
  /\ taskPc["socket"] = "dispatch"
  /\ IF Lookup(sockSrc) # 0
       THEN /\ Invoke("socket", Lookup(sockSrc), "decap")
            /\ UNCHANGED sockSrc
       ELSE /\ taskPc' = [taskPc EXCEPT !["socket"] = "recv"]
            /\ sockSrc' = None
            /\ UNCHANGED op
  /\ UNCHANGED <<cfgVars, startupVars, runPc, removed, winner, runResult, error, exitCode,
                 lock, tunDst, rIdx, interrupt>>

\* handle_socket_packet up to its first await: lock, decapsulate, match.
HandleSocketPacket ==
  /\ taskPc["socket"] = "decap"
  /\ LET p == op["socket"].peer
     IN IF ~session[p].tunn
          THEN Return("socket", "ok", <<>>)
          ELSE /\ LockFree(p)
               /\ \E r \in TunnResult :
                    LET log == <<Ev("decapsulate", "src", r, 0)>>
                        m == SocketMatch(r)
                    IN CASE m = "network" ->
                              IF CanSend(p) THEN Goto("socket", "send", log, 0)
                                            ELSE Return("socket", "err", log)
                         [] m = "tunnel" ->
                              IF session[p].send_tun THEN Goto("socket", "tun_send", log, 0)
                                                     ELSE Return("socket", "err", log)
                         [] m = "ignore" -> Return("socket", "ok", log)
                         [] OTHER -> Return("socket", "err", log)
  /\ UNCHANGED <<cfgVars, startupVars, runPc, removed, winner, runResult, error, exitCode,
                 lock, sockSrc, tunDst, rIdx, interrupt>>

\* handle_socket_packet: the first send completes.
HspSend ==
  /\ taskPc["socket"] = "send"
  /\ SendDone("socket", "drain")
  /\ UNCHANGED <<cfgVars, startupVars, runPc, removed, winner, runResult, error, exitCode,
                 lock, sockSrc, tunDst, rIdx, interrupt>>

\* handle_socket_packet: the drain loop.
HspDrain ==
  /\ Drain("socket")
  /\ UNCHANGED <<cfgVars, startupVars, runPc, removed, winner, runResult, error, exitCode,
                 sockSrc, tunDst, rIdx, interrupt>>

HspDrainSend ==
  /\ DrainSend("socket")
  /\ UNCHANGED <<cfgVars, startupVars, runPc, removed, winner, runResult, error, exitCode,
                 sockSrc, tunDst, rIdx, interrupt>>

\* handle_socket_packet: send_tun.send(&packet).await completes.
HspTunSend ==
  /\ taskPc["socket"] = "tun_send"
  /\ \E ok \in BOOLEAN :
       LET log == Append(op["socket"].log,
                         Ev("tun_send", "tun", IF ok THEN "ok" ELSE "err",
                            Len(op["socket"].log)))
       IN Return("socket", IF ok THEN "ok" ELSE "err", log)
  /\ UNCHANGED <<cfgVars, startupVars, runPc, removed, winner, runResult, error, exitCode,
                 lock, sockSrc, tunDst, rIdx, interrupt>>

\* The socket loop after the handler returned: `if let Err(e) = ..`.
SocketLoop ==
  /\ taskPc["socket"] = "ret"
  /\ taskPc' = [taskPc EXCEPT !["socket"] = LoopAfterReturn(op["socket"].status, "recv")]
  /\ op' = [op EXCEPT !["socket"] = IdleOp]
  /\ sockSrc' = None
  /\ UNCHANGED <<cfgVars, startupVars, runPc, removed, winner, runResult, error, exitCode,
                 lock, tunDst, rIdx, interrupt>>

\* println!("Handle socket packet failed: {e}")
SocketReport ==
  /\ taskPc["socket"] = "report"
  /\ taskPc' = [taskPc EXCEPT !["socket"] = "recv"]
  /\ UNCHANGED <<cfgVars, startupVars, runPc, removed, winner, runResult, error, exitCode,
                 op, lock, sockSrc, tunDst, rIdx, interrupt>>

----------------------------------------------------------------------------
\* The interface receive loop: recv returns a packet or fails.
TunRecv ==
  /\ taskPc["tun"] = "recv"
  /\ \/ \E dst \in Dests :
          /\ tunDst' = dst
          /\ taskPc' = [taskPc EXCEPT !["tun"] = "dispatch"]
     \/ /\ taskPc' = [taskPc EXCEPT !["tun"] = "done"]
        /\ UNCHANGED tunDst
  /\ UNCHANGED <<cfgVars, startupVars, runPc, removed, winner, runResult, error, exitCode,
                 op, lock, sockSrc, rIdx, interrupt>>

\* allowed_ips_peer_map.first()
First(list) == IF Len(list) > 0 THEN list[1][2] ELSE 0

\* Mutation: the packet goes to the first peer with a range holding its
\* destination.
TunLookup_ByRange(dst) ==
  LET hits == {i \in 1..Len(allowed_ips_peer_map) : allowed_ips_peer_map[i][1] = dst}
  IN IF hits = {} THEN 0
     ELSE allowed_ips_peer_map[CHOOSE i \in hits : \A j \in hits : i <= j][2]

\* The peer for a packet to dst: `if let Some(peer) = allowed_ips_peer_map.first()`;
\* the destination is not looked at.
TunLookup(dst) == First(allowed_ips_peer_map)

\* The packet in hand is dispatched; the buffer is reused by the next recv.
TunDispatch ==
  /\ taskPc["tun"] = "dispatch"
  /\ IF TunLookup(tunDst) # 0
       THEN Invoke("tun", TunLookup(tunDst), "encap")
       ELSE /\ taskPc' = [taskPc EXCEPT !["tun"] = "recv"]
            /\ UNCHANGED op
  /\ tunDst' = None
  /\ UNCHANGED <<cfgVars, startupVars, runPc, removed, winner, runResult, error, exitCode,
                 lock, sockSrc, rIdx, interrupt>>

\* handle_tun_packet up to its first await: lock, encapsulate, match.
HandleTunPacket ==
  /\ taskPc["tun"] = "encap"
  /\ LET p == op["tun"].peer
     IN IF ~session[p].tunn
          THEN Return("tun", "ok", <<>>)
          ELSE /\ LockFree(p)
               /\ \E r \in TunnResult :
                    LET log == <<Ev("encapsulate", "src", r, 0)>>
                        m == TunMatch(r)
                    IN CASE m = "network" ->
                              IF CanSend(p) THEN Goto("tun", "send", log, 0)
                                            ELSE Return("tun", "err", log)
                         [] m = "ignore" -> Return("tun", "ok", log)
                         [] OTHER -> Return("tun", "err", log)
  /\ UNCHANGED <<cfgVars, startupVars, runPc, removed, winner, runResult, error, exitCode,
                 lock, sockSrc, tunDst, rIdx, interrupt>>

\* handle_tun_packet: the first send completes.
HtpSend ==
  /\ taskPc["tun"] = "send"
  /\ SendDone("tun", "drain")
  /\ UNCHANGED <<cfgVars, startupVars, runPc, removed, winner, runResult, error, exitCode,
                 lock, sockSrc, tunDst, rIdx, interrupt>>

\* handle_tun_packet: the drain loop.
HtpDrain ==
  /\ Drain("tun")
  /\ UNCHANGED <<cfgVars, startupVars, runPc, removed, winner, runResult, error, exitCode,
                 sockSrc, tunDst, rIdx, interrupt>>

HtpDrainSend ==
  /\ DrainSend("tun")
  /\ UNCHANGED <<cfgVars, startupVars, runPc, removed, winner, runResult, error, exitCode,
                 sockSrc, tunDst, rIdx, interrupt>>

\* The interface loop after the handler returned.
TunLoop ==
  /\ taskPc["tun"] = "ret"
  /\ taskPc' = [taskPc EXCEPT !["tun"] = LoopAfterReturn(op["tun"].status, "recv")]
  /\ op' = [op EXCEPT !["tun"] = IdleOp]
  /\ UNCHANGED <<cfgVars, startupVars, runPc, removed, winner, runResult, error, exitCode,
                 lock, sockSrc, tunDst, rIdx, interrupt>>

\* println!("Handle tun packet failed: {e}")
TunReport ==
  /\ taskPc["tun"] = "report"
  /\ taskPc' = [taskPc EXCEPT !["tun"] = "recv"]
  /\ UNCHANGED <<cfgVars, startupVars, runPc, removed, winner, runResult, error, exitCode,
                 op, lock, sockSrc, tunDst, rIdx, interrupt>>

----------------------------------------------------------------------------
\* Mutation: the tick ends after its first peer.
RoutineGo_FirstOnly(i) ==
  IF i = 1 /\ i <= Len(routine_peers)
    THEN /\ Invoke("routine", routine_peers[i], "timers")
         /\ rIdx' = i
    ELSE /\ taskPc' = [taskPc EXCEPT !["routine"] = "sleep"]
         /\ op' = [op EXCEPT !["routine"] = IdleOp]
         /\ rIdx' = 0

\* `for peer in &routine_peers`: the loop goes on with the peer at position i,
\* or sleeps again after the last one.
RoutineGo(i) ==
  IF i <= Len(routine_peers)
    THEN /\ Invoke("routine", routine_peers[i], "timers")
         /\ rIdx' = i
    ELSE /\ taskPc' = [taskPc EXCEPT !["routine"] = "sleep"]
         /\ op' = [op EXCEPT !["routine"] = IdleOp]
         /\ rIdx' = 0

\* The housekeeping loop: sleep(1s) elapses.
RoutineTick ==
  /\ taskPc["routine"] = "sleep"
  /\ RoutineGo(1)
  /\ UNCHANGED <<cfgVars, startupVars, runPc, removed, winner, runResult, error, exitCode,
                 lock, sockSrc, tunDst, interrupt>>

\* handle_routine_task_result for result r, reached with log after n
\* handshake requests.
RoutineResult(log, r, n) ==
  LET p == op["routine"].peer
      m == RoutineMatch(r)
  IN CASE m = "network" ->
            IF CanSend(p) THEN Goto("routine", "send", log, n)
                          ELSE Return("routine", "err", log)
       [] m = "handshake" -> Goto("routine", "handshake", log, n)
       [] m = "ignore" -> Return("routine", "ok", log)
       [] OTHER -> Return("routine", "err", log)

\* handle_routine_task up to its first await: lock, update_timers.
HandleRoutineTask ==
  /\ taskPc["routine"] = "timers"
  /\ LET p == op["routine"].peer
     IN IF ~session[p].tunn
          THEN Return("routine", "ok", <<>>)
          ELSE /\ LockFree(p)
               /\ \E r \in TunnResult :
                    RoutineResult(<<Ev("update_timers", "-", r, 0)>>, r, 0)
  /\ UNCHANGED <<cfgVars, startupVars, runPc, removed, winner, runResult, error, exitCode,
                 lock, sockSrc, tunDst, rIdx, interrupt>>

\* The ConnectionExpired arm: lock, format_handshake_initiation, recurse.
HrtHandshake ==
  /\ taskPc["routine"] = "handshake"
  /\ LockFree(op["routine"].peer)
  /\ \E r \in TunnResult :
       /\ r = ErrConnectionExpired => op["routine"].n < MaxRetry
       /\ RoutineResult(Append(op["routine"].log,
                               Ev("format_handshake_initiation", "-", r, 0)),
                        r, op["routine"].n + 1)
  /\ UNCHANGED <<cfgVars, startupVars, runPc, removed, winner, runResult, error, exitCode,
                 lock, sockSrc, tunDst, rIdx, interrupt>>

\* The WriteToNetwork arm: the send completes.
HrtSend ==
  /\ taskPc["routine"] = "send"
  /\ SendDone("routine", "ret")
  /\ UNCHANGED <<cfgVars, startupVars, runPc, removed, winner, runResult, error, exitCode,
                 lock, sockSrc, tunDst, rIdx, interrupt>>

\* The housekeeping loop after the handler returned.
RoutineLoop ==
  /\ taskPc["routine"] = "ret"
  /\ IF LoopAfterReturn(op["routine"].status, "next") = "report"
       THEN /\ taskPc' = [taskPc EXCEPT !["routine"] = "report"]
            /\ op' = [op EXCEPT !["routine"] = IdleOp]
            /\ UNCHANGED rIdx
       ELSE RoutineGo(rIdx + 1)
  /\ UNCHANGED <<cfgVars, startupVars, runPc, removed, winner, runResult, error, exitCode,
                 lock, sockSrc, tunDst, interrupt>>

\* println!("Handle routine task failed: {e}")
RoutineReport ==
  /\ taskPc["routine"] = "report"
  /\ RoutineGo(rIdx + 1)
  /\ UNCHANGED <<cfgVars, startupVars, runPc, removed, winner, runResult, error, exitCode,
                 lock, sockSrc, tunDst, interrupt>>

----------------------------------------------------------------------------
Next ==
  \/ RunInterface \/ RunRouteManager \/ RunBindAddr \/ RunBind \/ RunAddress
  \/ RunTunDev \/ RunPeer \/ RunRoute \/ RunSpawn \/ RunShutdown
  \/ Interrupt \/ SignalTask
  \/ SocketRecv \/ SocketDispatch \/ HandleSocketPacket \/ HspSend \/ HspDrain
  \/ HspDrainSend \/ HspTunSend \/ SocketLoop \/ SocketReport
  \/ TunRecv \/ TunDispatch \/ HandleTunPacket \/ HtpSend \/ HtpDrain \/ HtpDrainSend
  \/ TunLoop \/ TunReport
  \/ RoutineTick \/ HandleRoutineTask \/ HrtHandshake \/ HrtSend \/ RoutineLoop
  \/ RoutineReport

Spec == Init /\ [][Next]_vars

\* The scheduler runs every task that is ready and the future of run when a
\* join handle wakes it; nothing is assumed of the sockets, the interface or
\* the engine.
FairSpec == Spec /\ WF_vars(SignalTask) /\ WF_vars(RunShutdown)

\* Every network send and interface write that has been started completes,
\* and tokio's Mutex serves its waiters in order, so that a task waiting for a
\* lock that is free again and again gets it.
SocketStep == HandleSocketPacket \/ HspSend \/ HspDrain \/ HspDrainSend \/ HspTunSend
TunStep == HandleTunPacket \/ HtpSend \/ HtpDrain \/ HtpDrainSend
RoutineStep == HandleRoutineTask \/ HrtHandshake \/ HrtSend

\* The configurations with which run reaches the spawning of the tasks with
\* at least one peer.
InitValid ==
  /\ Init
  /\ interface = InterfaceCfg(TRUE, TRUE, TRUE)
  /\ Len(peers) > 0
  /\ \A i \in 1..Len(peers) : peers[i].public_key /\ peers[i].has_allowed_ips

LockFairSpec ==
  /\ InitValid /\ [][Next]_vars
  /\ SF_vars(SocketStep) /\ SF_vars(TunStep) /\ SF_vars(RoutineStep)

----------------------------------------------------------------------------
\* WireGuard::from_content.

\* Longest configuration text, in lines.
MaxLines == 4

\* A trimmed line of the configuration text: `[key]`, `key = v1, v2`, an empty
\* line or a comment, or any other text.
Header(name) == [kind |-> "header", key |-> name, values |-> <<>>]
KeyValue(k, vs) == [kind |-> "kv", key |-> k, values |-> vs]
Blank == [kind |-> "blank", key |-> None, values |-> <<>>]
Text == [kind |-> "text", key |-> None, values |-> <<>>]

\* The lines of the configuration texts explored; every value decodes.
Lines ==
  { Header("Interface"), Header("PEER"), Header("Other"),
    KeyValue("PrivateKey", <<"k">>), KeyValue("Endpoint", <<"a1">>),
    KeyValue("Endpoint", <<"a2", "a3">>), KeyValue("Bogus", <<"v">>),
    Blank, Text }

Contents == UNION {[1..n -> Lines] : n \in 0..MaxLines}

\* str::to_lowercase on the section names in use.
ToLowercase(name) ==
  CASE name = "Interface" -> "interface"
    [] name = "PEER" -> "peer"
    [] name = "Other" -> "other"
    [] OTHER -> name

\* parse_section_header: <<>> is Option::None, <<s>> is Some(s).
parse_section_header(line) ==
  IF line.kind = "header"
    THEN CASE ToLowercase(line.key) = "interface" -> <<"Interface">>
           [] ToLowercase(line.key) = "peer" -> <<"Peer">>
           [] OTHER -> <<None>>
    ELSE <<>>

\* parse_key_value: <<>> is Option::None, <<<<key, values>>>> is Some.
parse_key_value(line) ==
  IF line.kind = "kv" THEN << <<line.key, line.values>> >> ELSE <<>>

InterfaceKeys == {"PrivateKey", "Address", "ListenPort", "DNS"}
PeerKeys == {"PublicKey", "AllowedIPs", "Endpoint", "PersistentKeepalive"}

\* Interface::new and Peer::new.
InterfaceNew == [private_key |-> FALSE, address |-> FALSE]
PeerCfgNew == PeerCfg(FALSE, None, FALSE, <<>>)

\* Mutation: an [Interface] header is accepted wherever it stands.
FirstSection_Any(section) == TRUE

\* The [Interface] header is accepted only when no section was seen before.
FirstSection(section) == section = None

\* Mutation: a key-value line outside every section is skipped.
KeyError_Skipped(section, key) ==
  CASE section = "Interface" ->
         IF key \in InterfaceKeys THEN None ELSE "Unexpected Interface Key"
    [] section = "Peer" ->
         IF key \in PeerKeys THEN None ELSE "Unexpected Peer Key"
    [] OTHER -> None

\* The error a key-value line ends in, None when its key is set.
KeyError(section, key) ==
  CASE section = "Interface" ->
         IF key \in InterfaceKeys THEN None ELSE "Unexpected Interface Key"
    [] section = "Peer" ->
         IF key \in PeerKeys THEN None ELSE "Unexpected Peer Key"
    [] OTHER -> "Unexpected session"

\* The arms of `match key.as_str()` in the Interface section.
SetInterfaceKey(itf, key, values) ==
  CASE key = "PrivateKey" /\ values # <<>> -> [itf EXCEPT !.private_key = TRUE]
    [] key = "Address" /\ values # <<>> -> [itf EXCEPT !.address = TRUE]
    [] OTHER -> itf

\* The arms of `match key.as_str()` in the Peer section.
SetPeerKey(p, key, values) ==
  CASE key = "PublicKey" /\ values # <<>> -> [p EXCEPT !.public_key = TRUE]
    [] key = "AllowedIPs" -> [p EXCEPT !.has_allowed_ips = TRUE, !.allowed_ips = values]
    [] key = "Endpoint" /\ values # <<>> -> [p EXCEPT !.endpoint = values[1]]
    [] OTHER -> p

\* main before from_content is called.
InitParse ==
  /\ interface = InterfaceCfg(FALSE, FALSE, FALSE)
  /\ peers = <<>>
  /\ \E c \in Contents :
       parse = [pc |-> "line", content |-> c, pos |-> 1, current_section |-> None,
                current_peer |-> <<>>, interface |-> InterfaceNew]
  /\ route_stack = <<>>
  /\ session = <<>>
  /\ endpoint_peer_map = [a \in {} |-> 0]
  /\ allowed_ips_peer_map = <<>>
  /\ routine_peers = <<>>
  /\ runPc = "unstarted"
  /\ pIdx = 0
  /\ aIdx = 0
  /\ installed = <<>>
  /\ removed = <<>>
  /\ taskPc = [t \in Tasks |-> "unspawned"]
  /\ op = [t \in Handlers |-> IdleOp]
  /\ lock = <<>>
  /\ sockSrc = None
  /\ tunDst = None
  /\ rIdx = 0
  /\ interrupt = FALSE
  /\ winner = None
  /\ runResult = None
  /\ error = None
  /\ exitCode = None

parseFrame ==
  <<route_stack, endpoint_peer_map, allowed_ips_peer_map, routine_peers, pIdx, aIdx,
    installed, removed, taskPc, op, sockSrc, tunDst, rIdx, interrupt, winner, runResult>>

AtLine == parse.pc = "line" /\ parse.pos <= Len(parse.content)
Line == parse.content[parse.pos]

\* WireGuard::add_peer: the peer is pushed, nothing of it wired.
AddPeer(peer) ==
  /\ peers' = Append(peers, peer)
  /\ session' = Append(session, PeerNew)
  /\ lock' = Append(lock, None)

\* A `?` of from_content: main returns the error.
ParseFail(msg) ==
  /\ parse' = [parse EXCEPT !.pc = "err"]
  /\ error' = msg
  /\ exitCode' = MainExit("err")
  /\ UNCHANGED <<interface, peers, session, lock, runPc>>

\* An empty line or a comment: `continue`.
ParseBlank ==
  /\ AtLine
  /\ Line.kind = "blank"
  /\ parse' = [parse EXCEPT !.pos = @ + 1]
  /\ UNCHANGED <<interface, peers, session, lock, runPc, error, exitCode, parseFrame>>

\* A section header.
ParseHeader ==
  /\ AtLine
  /\ Line.kind # "blank"
  /\ parse_section_header(Line) # <<>>
  /\ LET section == parse_section_header(Line)[1]
     IN CASE section = "Interface" ->
               IF ~FirstSection(parse.current_section)
                 THEN ParseFail("The First Section must be [Interface]")
                 ELSE /\ parse' = [parse EXCEPT !.pos = @ + 1, !.current_section = "Interface"]
                      /\ UNCHANGED <<interface, peers, session, lock, runPc, error, exitCode>>
          [] section = "Peer" ->
               IF parse.current_section = None
                 THEN ParseFail("Setup [Interface] before [Peer]")
                 ELSE /\ IF parse.current_peer # <<>>
                           THEN AddPeer(parse.current_peer[1])
                           ELSE UNCHANGED <<peers, session, lock>>
                      /\ parse' = [parse EXCEPT !.pos = @ + 1, !.current_section = "Peer",
                                                !.current_peer = <<PeerCfgNew>>]
                      /\ UNCHANGED <<interface, runPc, error, exitCode>>
          [] OTHER -> ParseFail("Unexpected session")
  /\ UNCHANGED parseFrame

\* Any other line: a key-value line is routed to the current section, the
\* rest is passed over.
ParseKeyValue ==
  /\ AtLine
  /\ Line.kind # "blank"
  /\ parse_section_header(Line) = <<>>
  /\ IF parse_key_value(Line) # <<>>
       THEN LET key == parse_key_value(Line)[1][1]
                values == parse_key_value(Line)[1][2]
                section == parse.current_section
            IN IF KeyError(section, key) # None
                 THEN ParseFail(KeyError(section, key))
                 ELSE /\ parse' =
                           CASE section = "Interface" ->
                                  [parse EXCEPT !.pos = @ + 1,
                                     !.interface = SetInterfaceKey(@, key, values)]
                             [] section = "Peer" ->
                                  [parse EXCEPT !.pos = @ + 1,
                                     !.current_peer = <<SetPeerKey(@[1], key, values)>>]
                             [] OTHER -> [parse EXCEPT !.pos = @ + 1]
                      /\ UNCHANGED <<interface, peers, session, lock, runPc, error, exitCode>>
       ELSE /\ parse' = [parse EXCEPT !.pos = @ + 1]
            /\ UNCHANGED <<interface, peers, session, lock, runPc, error, exitCode>>
  /\ UNCHANGED parseFrame

\* After the last line: the open peer is added, the interface set, Ok returned.
ParseEnd ==
  /\ parse.pc = "line"
  /\ parse.pos > Len(parse.content)
  /\ IF parse.current_peer # <<>>
       THEN AddPeer(parse.current_peer[1])
       ELSE UNCHANGED <<peers, session, lock>>
  /\ interface' = InterfaceCfg(TRUE, parse.interface.private_key, parse.interface.address)
  /\ parse' = [parse EXCEPT !.pc = "ok", !.current_peer = <<>>]
  /\ runPc' = "start"
  /\ UNCHANGED <<error, exitCode, parseFrame>>

NextParse == ParseBlank \/ ParseHeader \/ ParseKeyValue \/ ParseEnd

ParseSpec == InitParse /\ [][NextParse]_vars

----------------------------------------------------------------------------
\* Reading an invocation's log.
IsEngineCall(e) == e.call \in EngineCalls
IsSend(e) == e.call = "send_to"
IsTunWrite(e) == e.call = "tun_send"
IsEmptyDecap(e) == e.call = "decapsulate" /\ e.arg = "empty"
Count(log, P(_)) == Cardinality({i \in 1..Len(log) : P(log[i])})
IsDrainHit(e) == IsEmptyDecap(e) /\ e.res = WriteToNetwork
AllSendsOk(log) == \A i \in 1..Len(log) : IsSend(log[i]) => log[i].res = "ok"

\* The log of a complete drain for peer p: the first engine call returned
\* WriteToNetwork, then with k the number of empty-input decapsulate calls
\* that returned WriteToNetwork: k+1 sends to p's endpoint, each right after
\* the engine call whose bytes it carries, k+1 empty-input decapsulate calls,
\* the last of them, and only it, returning something else.
DrainShape(log, p) ==
  LET k == Count(log, IsDrainHit)
      n == Len(log)
  IN /\ n = 2 * k + 3
     /\ log[1].res = WriteToNetwork /\ log[1].arg = "src"
     /\ Count(log, IsSend) = k + 1
     /\ Count(log, IsEmptyDecap) = k + 1
     /\ Count(log, IsTunWrite) = 0
     /\ \A i \in 1..n :
          /\ IsSend(log[i]) =>
               /\ i > 1
               /\ log[i].arg = peers[p].endpoint
               /\ log[i].of = i - 1
               /\ IsEngineCall(log[i - 1])
               /\ log[i - 1].res = WriteToNetwork
          /\ (IsEngineCall(log[i]) /\ log[i].res = WriteToNetwork) =>
               i < n /\ IsSend(log[i + 1])
          /\ IsEmptyDecap(log[i]) => (log[i].res # WriteToNetwork <=> i = n)

\* C1: when the first decapsulate of handle_socket_packet returns
\* WriteToNetwork and every send succeeds, the invocation returns Ok after one
\* send of that result to the peer's endpoint and, for k empty-input
\* decapsulate calls answered WriteToNetwork, k further sends to the same
\* endpoint: k+1 sends and k+1 empty-input calls in all, every send right
\* after the call that produced its bytes, the invocation ending with the
\* first empty-input call that returns anything else.
C1_InboundDrain ==
  LET o == op["socket"]
  IN (/\ taskPc["socket"] = "ret"
      /\ Len(o.log) > 0
      /\ o.log[1].res = WriteToNetwork
      /\ AllSendsOk(o.log))
     => /\ o.status = "ok"
        /\ o.log[1].call = "decapsulate"
        /\ DrainShape(o.log, o.peer)

C1_Witness ==
  /\ taskPc["socket"] = "ret"
  /\ op["socket"].status = "ok"
  /\ Len(op["socket"].log) >= 5
  /\ op["socket"].log[3].res = WriteToNetwork

\* C2: for the other outcomes of the first decapsulate of
\* handle_socket_packet: on WriteToTunnelV4 the invocation makes exactly one
\* interface write, of that payload, and no send; on WriteToTunnelV6 and on
\* Done it makes no send and no write and returns Ok; on an Err it makes no
\* send and no write and returns Err, which the socket loop reports before it
\* goes on.
C2_InboundOther ==
  /\ [](LET o == op["socket"]
        IN (taskPc["socket"] = "ret" /\ Len(o.log) > 0) =>
             /\ o.log[1].call = "decapsulate" /\ o.log[1].arg = "src"
             /\ o.log[1].res = WriteToTunnelV4 =>
                  /\ Len(o.log) = 2
                  /\ IsTunWrite(o.log[2]) /\ o.log[2].of = 1
                  /\ o.status = o.log[2].res
             /\ o.log[1].res \in {WriteToTunnelV6, Done} =>
                  Len(o.log) = 1 /\ o.status = "ok"
             /\ o.log[1].res \in {ErrConnectionExpired, ErrOther} =>
                  Len(o.log) = 1 /\ o.status = "err")
  /\ [][(/\ taskPc["socket"] = "ret"
         /\ op["socket"].status = "err"
         /\ taskPc'["socket"] \notin {"ret", "cancelled"})
        => taskPc'["socket"] = "report"]_vars

C2_Witness ==
  /\ taskPc["socket"] = "ret"
  /\ Len(op["socket"].log) = 2
  /\ op["socket"].log[1].res = WriteToTunnelV4
  /\ op["socket"].log[2].res = "ok"

\* C3: handle_tun_packet calls encapsulate exactly once, first; on
\* WriteToNetwork, for a peer with an endpoint and as long as the sends
\* succeed, the result is sent to the endpoint and the empty-input decapsulate
\* drain runs as for inbound; on Done nothing is sent or written and the
\* invocation returns Ok; on every other outcome nothing is sent or written
\* and it returns Err; it never writes to the interface.
C3_Outbound ==
  LET o == op["tun"]
  IN /\ Count(o.log, IsTunWrite) = 0
     /\ (taskPc["tun"] = "ret" /\ Len(o.log) > 0) =>
          /\ o.log[1].call = "encapsulate"
          /\ Cardinality({i \in 1..Len(o.log) : o.log[i].call = "encapsulate"}) = 1
          /\ (o.log[1].res = WriteToNetwork /\ CanSend(o.peer) /\ AllSendsOk(o.log)) =>
               o.status = "ok" /\ DrainShape(o.log, o.peer)
          /\ o.log[1].res = Done => Len(o.log) = 1 /\ o.status = "ok"
          /\ o.log[1].res \notin {WriteToNetwork, Done} =>
               Len(o.log) = 1 /\ o.status = "err"

C3_Witness ==
  /\ taskPc["tun"] = "ret"
  /\ op["tun"].status = "ok"
  /\ Len(op["tun"].log) >= 5
  /\ op["tun"].log[3].res = WriteToNetwork

----------------------------------------------------------------------------
\* Task t makes an engine call in this step.
EngineCallBy(t) ==
  /\ Len(op'[t].log) = Len(op[t].log) + 1
  /\ IsEngineCall(op'[t].log[Len(op'[t].log)])

\* The invocation of task t has made its first engine call and has not
\* returned.
Started(t) == op[t].status = "run" /\ Len(op[t].log) > 0

\* C4 as stated: from the first engine call of an operation on a peer until
\* the operation returns, no other operation makes an engine call on that
\* peer.
C4_WholeOperationLocked ==
  [][\A t \in Handlers : \A u \in Handlers \ {t} :
       (EngineCallBy(t) /\ Started(u)) => op[u].peer # op'[t].peer]_vars

\* C4 amended: the engine of a peer is locked per engine call, not per
\* operation. The guard is alive beyond the call only in the drain loops, from
\* an empty-input decapsulate that returned WriteToNetwork until the send of
\* that result has completed; while it is alive no other operation makes an
\* engine call on that peer, and every engine call finds the lock free.
C4_LockedPerCall ==
  /\ [](\A p \in DOMAIN lock : \A t \in Handlers :
          lock[p] = t <=> (taskPc[t] = "drain_send" /\ op[t].peer = p))
  /\ [][\A t \in Handlers :
          EngineCallBy(t) => lock[op'[t].peer] = None]_vars

C4_Witness ==
  \E p \in DOMAIN lock :
    /\ lock[p] = "socket"
    /\ taskPc["routine"] = "timers" /\ op["routine"].peer = p
    /\ taskPc["tun"] = "encap" /\ op["tun"].peer = p

\* C5: when run reaches shutdown after installing R1..Rn in that order, it
\* attempts the removal of Rn..R1 in that order, each once, whatever the
\* result of each removal, and the route stack is empty when it returns;
\* until then the stack holds the installed routes in order.
C5_RouteLifo ==
  /\ runPc # "returned" => route_stack = installed
  /\ runResult = "ok" =>
       /\ route_stack = <<>>
       /\ Len(removed) = Len(installed)
       /\ \A i \in 1..Len(removed) : removed[i].route = installed[Len(installed) + 1 - i]

C5_Witness ==
  /\ runResult = "ok"
  /\ Len(installed) >= 3
  /\ ~removed[1].ok
  /\ installed[1] # installed[Len(installed)]

\* C6: run returns Ok only after one of the four tasks has completed; the
\* housekeeping task never completes, so the task select_all reports is the
\* signal task, the socket loop or the interface loop; and once the interrupt
\* signal has been received or a receive of the socket or of the interface
\* has failed, run eventually attempts the removal of every installed route
\* and returns, whatever the other tasks are doing.
C6_Trigger ==
  interrupt \/ taskPc["socket"] = "done" \/ taskPc["tun"] = "done"

C6_Unwound ==
  runResult = "ok" /\ route_stack = <<>> /\ Len(removed) = Len(installed)

C6_ShutdownRace ==
  /\ []((removed # <<>> \/ runResult = "ok") =>
          /\ \E t \in Tasks : taskPc[t] = "done"
          /\ winner \in {"signal", "socket", "tun"}
          /\ taskPc[winner] = "done")
  /\ [](taskPc["routine"] # "done")
  /\ (C6_Trigger ~> C6_Unwound)

C6_Witness ==
  /\ runResult = "ok"
  /\ winner = "socket"
  /\ Len(removed) >= 3
  /\ taskPc["routine"] = "cancelled"
  /\ taskPc["signal"] = "cancelled"

\* C7: when a step of the startup fails (no interface, the route manager, the
\* default route and its address, the bind, the interface address, the tun
\* device, a missing private or public key, the engine, the tun device's
\* index or name, a route installation), run returns the error and no task
\* has been spawned.
C7_StartupConfigBad ==
  \/ ~interface.present
  \/ ~interface.address
  \/ \E i \in 1..Len(peers) : ~interface.private_key \/ ~peers[i].public_key

C7_StartupAborts ==
  /\ error # None =>
       /\ runPc = "returned" /\ runResult = "err"
       /\ \A t \in Tasks : taskPc[t] = "unspawned"
  /\ C7_StartupConfigBad => \A t \in Tasks : taskPc[t] = "unspawned"

C7_Witness ==
  /\ error = "Add route failed"
  /\ Len(installed) >= 2

\* C8: the exit status is zero when the interrupt signal decided the race,
\* and non-zero on a startup error and when the termination of the socket loop
\* or of the interface loop decided it.
C8_ExitStatus ==
  runPc = "returned" =>
    /\ winner = "signal" => exitCode = 0
    /\ error # None => exitCode # 0
    /\ winner \in {"socket", "tun"} => exitCode # 0

\* C9: an error returned by handle_socket_packet, handle_tun_packet or
\* handle_routine_task is reported by the loop that called it, which then goes
\* on: the socket and interface loops with the next receive, housekeeping
\* with the next peer of the tick or the next sleep. A loop completes only by
\* the failure of its own receive, the housekeeping loop never, and the
\* process exits only after a startup error or once a task has completed.
C9_ErrorsContained ==
  [][/\ \A t \in Handlers :
          /\ (taskPc[t] = "ret" /\ op[t].status = "err"
                /\ taskPc'[t] \notin {"ret", "cancelled"})
               => taskPc'[t] = "report"
          /\ (taskPc[t] = "report" /\ taskPc'[t] \notin {"report", "cancelled"})
               => IF t = "routine"
                    THEN IF rIdx < Len(routine_peers)
                           THEN /\ taskPc'[t] = "timers"
                                /\ rIdx' = rIdx + 1
                                /\ op'[t].peer = routine_peers[rIdx + 1]
                           ELSE taskPc'[t] = "sleep"
                    ELSE taskPc'[t] = "recv"
          /\ (taskPc'[t] = "done" /\ taskPc[t] # "done")
               => t # "routine" /\ taskPc[t] = "recv"
     /\ (runPc' = "returned" /\ runPc # "returned")
          => error' # None \/ runResult' = "panic" \/ \E t \in Tasks : taskPc[t] = "done"]_vars

C9_Witness ==
  /\ taskPc["routine"] = "report"
  /\ rIdx = 1
  /\ Len(routine_peers) = 2
  /\ taskPc["socket"] = "report"
  /\ taskPc["tun"] = "report"

\* C10: a datagram whose source address is no key of the endpoint map starts
\* no invocation, changes no invocation, no lock and no log, is not reported
\* and leaves the socket loop at its next receive; a datagram whose source is
\* a key invokes handle_socket_packet on the session the map holds for it and
\* touches no other invocation.
C10_InboundDispatch ==
  /\ [](op["socket"].status # "idle" =>
          /\ sockSrc \in DOMAIN endpoint_peer_map
          /\ op["socket"].peer = endpoint_peer_map[sockSrc]
          /\ peers[op["socket"].peer].endpoint = sockSrc)
  /\ [][(taskPc["socket"] = "dispatch" /\ taskPc'["socket"] \notin {"dispatch", "cancelled"})
        => IF sockSrc \in DOMAIN endpoint_peer_map
             THEN /\ taskPc'["socket"] = "decap"
                  /\ op'["socket"] = [IdleOp EXCEPT !.peer = endpoint_peer_map[sockSrc],
                                                    !.status = "run"]
                  /\ \A u \in Handlers \ {"socket"} : op'[u] = op[u]
                  /\ lock' = lock
             ELSE /\ taskPc'["socket"] = "recv"
                  /\ op' = op
                  /\ lock' = lock]_vars

C10_Witness ==
  /\ taskPc["socket"] = "dispatch"
  /\ sockSrc \notin DOMAIN endpoint_peer_map
  /\ sockSrc = "a1"
  /\ DOMAIN endpoint_peer_map = {"a2"}

----------------------------------------------------------------------------
\* The allowed ranges of the first n configured peers, in configuration
\* order, each with its peer.
RECURSIVE ConfiguredRanges(_)
ConfiguredRanges(n) ==
  IF n = 0 THEN <<>>
  ELSE ConfiguredRanges(n - 1) \o
       [k \in 1..Len(peers[n].allowed_ips) |-> <<peers[n].allowed_ips[k], n>>]

\* C11: once the tasks are spawned the range list holds every allowed range
\* of every peer in configuration order, overlapping ones included; every
\* packet read from the interface, whatever its destination, is handed to
\* handle_tun_packet of the peer of the first entry and touches no other
\* invocation; with an empty list it is dropped, nothing is invoked or
\* reported and the loop receives again.
C11_OutboundFirstEntry ==
  /\ [](taskPc["tun"] # "unspawned" =>
          allowed_ips_peer_map = ConfiguredRanges(Len(peers)))
  /\ [](op["tun"].status # "idle" =>
          /\ Len(allowed_ips_peer_map) > 0
          /\ op["tun"].peer = allowed_ips_peer_map[1][2])
  /\ [][(taskPc["tun"] = "dispatch" /\ taskPc'["tun"] \notin {"dispatch", "cancelled"})
        => IF Len(allowed_ips_peer_map) > 0
             THEN /\ taskPc'["tun"] = "encap"
                  /\ op'["tun"] = [IdleOp EXCEPT !.peer = allowed_ips_peer_map[1][2],
                                                 !.status = "run"]
                  /\ \A u \in Handlers \ {"tun"} : op'[u] = op[u]
                  /\ lock' = lock
             ELSE /\ taskPc'["tun"] = "recv"
                  /\ op' = op
                  /\ lock' = lock]_vars

C11_Witness ==
  /\ taskPc["tun"] = "dispatch"
  /\ tunDst = "n3"
  /\ Len(peers) = 2
  /\ allowed_ips_peer_map[1][2] = 1
  /\ \E j \in 1..Len(allowed_ips_peer_map) : allowed_ips_peer_map[j] = <<"n3", 2>>
  /\ \E i, j \in 1..Len(allowed_ips_peer_map) :
       /\ allowed_ips_peer_map[i][1] = allowed_ips_peer_map[j][1]
       /\ allowed_ips_peer_map[i][2] = 1
       /\ allowed_ips_peer_map[j][2] = 2

----------------------------------------------------------------------------
IsUpdateTimers(e) == e.call = "update_timers"
IsHandshakeInit(e) == e.call = "format_handshake_initiation"
IsDecapsulate(e) == e.call = "decapsulate"

\* C12: when update_timers returns Done, handle_routine_task sends and writes
\* nothing and returns Ok; when it returns WriteToNetwork, for a peer with an
\* endpoint, exactly one send of those bytes to the endpoint is made and no
\* drain follows; when it returns an Err other than ConnectionExpired or a
\* WriteToTunnel outcome nothing is sent or written and Err is returned.
\* Housekeeping never writes to the interface.
C12_Housekeeping ==
  LET o == op["routine"]
  IN /\ Count(o.log, IsTunWrite) = 0
     /\ Count(o.log, IsDecapsulate) = 0
     /\ (taskPc["routine"] = "ret" /\ Len(o.log) > 0) =>
          /\ IsUpdateTimers(o.log[1])
          /\ o.log[1].res = Done => Len(o.log) = 1 /\ o.status = "ok"
          /\ (o.log[1].res = WriteToNetwork /\ CanSend(o.peer)) =>
               /\ Len(o.log) = 2
               /\ IsSend(o.log[2])
               /\ o.log[2].arg = peers[o.peer].endpoint
               /\ o.log[2].of = 1
               /\ o.status = o.log[2].res
          /\ o.log[1].res \in {ErrOther, WriteToTunnelV4, WriteToTunnelV6} =>
               Len(o.log) = 1 /\ o.status = "err"

C12_Witness ==
  /\ taskPc["routine"] = "ret"
  /\ Len(op["routine"].log) = 2
  /\ op["routine"].log[1].res = WriteToNetwork
  /\ op["routine"].log[2].res = "ok"
  /\ op["routine"].status = "ok"

\* C13: when update_timers returns Err(ConnectionExpired) the next thing
\* handle_routine_task does is to request a handshake initiation, whose result
\* goes through the same handling (WriteToNetwork is sent to the endpoint,
\* Done is Ok, the rest is Err); if no handshake request of the invocation is
\* answered with Err(ConnectionExpired), the invocation returns after exactly
\* one update_timers call and exactly one format_handshake_initiation call.
C13_ExpiryRecovery ==
  LET o == op["routine"]
  IN /\ taskPc["routine"] = "handshake" =>
          o.log[Len(o.log)].res = ErrConnectionExpired
     /\ (taskPc["routine"] = "ret" /\ Len(o.log) > 0
           /\ o.log[1].res = ErrConnectionExpired) =>
          /\ Len(o.log) >= 2
          /\ IsHandshakeInit(o.log[2])
          /\ (\A i \in 1..Len(o.log) :
                IsHandshakeInit(o.log[i]) => o.log[i].res # ErrConnectionExpired) =>
               /\ Count(o.log, IsUpdateTimers) = 1
               /\ Count(o.log, IsHandshakeInit) = 1
               /\ (o.log[2].res = WriteToNetwork /\ CanSend(o.peer)) =>
                    /\ Len(o.log) = 3
                    /\ IsSend(o.log[3])
                    /\ o.log[3].arg = peers[o.peer].endpoint
                    /\ o.log[3].of = 2
                    /\ o.status = o.log[3].res
               /\ o.log[2].res = Done => Len(o.log) = 2 /\ o.status = "ok"
               /\ o.log[2].res \in {ErrOther, WriteToTunnelV4, WriteToTunnelV6} =>
                    Len(o.log) = 2 /\ o.status = "err"

C13_Witness ==
  /\ taskPc["routine"] = "ret"
  /\ Len(op["routine"].log) = 3
  /\ op["routine"].log[1].res = ErrConnectionExpired
  /\ op["routine"].log[2].res = WriteToNetwork
  /\ op["routine"].log[3].res = "ok"

----------------------------------------------------------------------------
\* Reading a configuration text.
InterfaceHeaders(c) ==
  {i \in 1..Len(c) : c[i].kind = "header" /\ ToLowercase(c[i].key) = "interface"}
PeerHeaders(c) ==
  {i \in 1..Len(c) : c[i].kind = "header" /\ ToLowercase(c[i].key) = "peer"}
KthOf(S, k) == CHOOSE h \in S : Cardinality({j \in S : j <= h}) = k
NoHeaderBefore == \A j \in 1..(parse.pos - 1) : parse.content[j].kind # "header"

\* The peer described by the lines from i up to the next header or the end.
RECURSIVE PeerOfLines(_, _, _)
PeerOfLines(c, i, p) ==
  IF i > Len(c) \/ c[i].kind = "header" THEN p
  ELSE PeerOfLines(c, i + 1,
         IF c[i].kind = "kv" THEN SetPeerKey(p, c[i].key, c[i].values) ELSE p)

\* C14 as stated: parsing succeeds only if exactly one [Interface] section
\* appears and it precedes every [Peer] section.
C14_ExactlyOneInterface ==
  parse.pc = "ok" =>
    /\ Cardinality(InterfaceHeaders(parse.content)) = 1
    /\ \A i \in InterfaceHeaders(parse.content), p \in PeerHeaders(parse.content) : i < p

\* C14: parsing succeeds only if at most one [Interface] section appears, it
\* precedes every [Peer] section and no [Peer] section appears without it; a
\* [Peer] before [Interface], a second [Interface] and an [Interface] after a
\* [Peer] fail. On success with N [Peer] sections the result holds one
\* Interface and exactly N peers in source order, each made of the lines
\* between its header and the next header or the end of input.
C14_SectionOrder ==
  LET c == parse.content
      I == InterfaceHeaders(c)
      P == PeerHeaders(c)
  IN parse.pc = "ok" =>
       /\ Cardinality(I) <= 1
       /\ P # {} => I # {}
       /\ \A i \in I, p \in P : i < p
       /\ interface.present
       /\ Len(peers) = Cardinality(P)
       /\ \A k \in 1..Len(peers) : peers[k] = PeerOfLines(c, KthOf(P, k) + 1, PeerCfgNew)

C14_Witness ==
  /\ parse.pc = "ok"
  /\ Len(peers) = 2
  /\ peers[1].endpoint = "a1"
  /\ peers[2].endpoint = None

\* C15 as stated: a key-value line before any section header is passed over,
\* with no error and no change of the interface or of a peer.
C15_KeyValueIgnored ==
  [][(AtLine /\ Line.kind = "kv" /\ NoHeaderBefore) =>
       /\ parse' = [parse EXCEPT !.pos = @ + 1]
       /\ UNCHANGED <<interface, peers, error, exitCode>>]_vars

\* C15: a key-value line before any section header makes from_content fail
\* with "Unexpected session"; what is passed over with no error and no change
\* is a line that is neither a header nor a key-value line.
C15_KeyValueOutsideSection ==
  /\ [][(AtLine /\ Line.kind = "kv" /\ NoHeaderBefore) =>
          /\ parse'.pc = "err"
          /\ error' = "Unexpected session"
          /\ exitCode' = 1
          /\ UNCHANGED <<interface, peers>>]_vars
  /\ [][(AtLine /\ Line.kind = "text") =>
          /\ parse' = [parse EXCEPT !.pos = @ + 1]
          /\ UNCHANGED <<interface, peers, error, exitCode>>]_vars

C15_Witness ==
  /\ parse.pc = "err"
  /\ parse.pos > 1
  /\ parse.content[parse.pos].kind = "kv"
  /\ NoHeaderBefore
  /\ error = "Unexpected session"

----------------------------------------------------------------------------
IoRunning == \E t \in Handlers : taskPc[t] \notin {"unspawned", "cancelled", "done"}
FullyWired(p) ==
  /\ p \in 1..Len(peers)
  /\ peers[p].public_key
  /\ session[p].tunn
  /\ session[p].send_socket
  /\ session[p].send_tun
Reachable ==
  {endpoint_peer_map[a] : a \in DOMAIN endpoint_peer_map}
    \cup {allowed_ips_peer_map[i][2] : i \in 1..Len(allowed_ips_peer_map)}
    \cup {routine_peers[i] : i \in 1..Len(routine_peers)}

\* C16: while an I/O task is running, every peer session reachable from the
\* endpoint map, the range list or the housekeeping list has its public key,
\* its engine instance, its send socket and its send interface set; a handler
\* is only ever invoked on such a session.
C16_SessionsWired ==
  /\ IoRunning => \A p \in Reachable : FullyWired(p)
  /\ \A t \in Handlers : op[t].status # "idle" => FullyWired(op[t].peer)

C16_Witness ==
  /\ IoRunning
  /\ Len(peers) = 2
  /\ Reachable = {1, 2}
  /\ op["socket"].status = "run" /\ op["socket"].peer = 2
  /\ op["routine"].status = "run" /\ op["routine"].peer = 1

----------------------------------------------------------------------------
\* The tasks whose guard of peer p's engine is alive beyond an engine call.
GuardHolders(p) == {t \in Handlers : taskPc[t] = "drain_send" /\ op[t].peer = p}

\* Task t is about to make an engine call.
WaitsForEngine(t) ==
  /\ taskPc[t] \in {"decap", "encap", "drain", "timers", "handshake"}
  /\ session[op[t].peer].tunn

\* The engine call task t is about to make can take place now.
EngineStepEnabled(t) ==
  CASE t = "socket" /\ taskPc[t] = "decap" -> ENABLED HandleSocketPacket
    [] t = "socket" /\ taskPc[t] = "drain" -> ENABLED HspDrain
    [] t = "tun" /\ taskPc[t] = "encap" -> ENABLED HandleTunPacket
    [] t = "tun" /\ taskPc[t] = "drain" -> ENABLED HtpDrain
    [] t = "routine" /\ taskPc[t] = "timers" -> ENABLED HandleRoutineTask
    [] t = "routine" /\ taskPc[t] = "handshake" -> ENABLED HrtHandshake
    [] OTHER -> FALSE

\* C17: at most one task holds a guard of a peer's engine, no task makes an
\* engine call on a peer while another task's guard of that peer is alive, and
\* a task about to make an engine call on a peer is held up exactly when a
\* guard of that same peer is alive: guards of other peers never block it.
C17_EngineExclusive ==
  /\ [](\A p \in DOMAIN lock : Cardinality(GuardHolders(p)) <= 1)
  /\ [][\A t \in Handlers :
          EngineCallBy(t) => GuardHolders(op'[t].peer) = {}]_vars
  /\ [](\A t \in Handlers :
          WaitsForEngine(t) => (EngineStepEnabled(t) <=> GuardHolders(op[t].peer) = {}))

C17_Witness ==
  /\ GuardHolders(2) = {"socket"}
  /\ taskPc["tun"] = "encap" /\ op["tun"].peer = 1
  /\ EngineStepEnabled("tun")
  /\ taskPc["routine"] = "timers" /\ op["routine"].peer = 2
  /\ ~EngineStepEnabled("routine")

----------------------------------------------------------------------------
RoutineAlive == taskPc["routine"] \notin {"unspawned", "cancelled"}
RoutineInvoked == taskPc["routine"] \in {"timers", "handshake", "send", "ret"}

\* C18: every configured peer is registered for housekeeping exactly once, in
\* configuration order. A tick starts with the first registered peer; after
\* an invocation has returned, Ok or Err, the loop invokes the handler on the
\* next registered peer, and sleeps again after the last one; the position in
\* the list moves at no other time, so that every registered peer is handled
\* exactly once per tick, one invocation at a time; the next tick can always
\* start.
C18_TickOrder ==
  /\ [](RoutineAlive => routine_peers = [i \in 1..Len(peers) |-> i])
  /\ [](RoutineAlive =>
          /\ rIdx \in 0..Len(routine_peers)
          /\ taskPc["routine"] = "sleep" <=> rIdx = 0
          /\ RoutineInvoked => op["routine"].peer = routine_peers[rIdx]
          /\ ~RoutineInvoked => op["routine"] = IdleOp
          /\ taskPc["routine"] = "sleep" => ENABLED RoutineTick)
  /\ [][(RoutineAlive /\ taskPc'["routine"] # "cancelled") =>
          LET pc == taskPc["routine"]
              pc2 == taskPc'["routine"]
          IN /\ (pc = "sleep" /\ pc2 # pc) =>
                  IF Len(routine_peers) > 0 THEN pc2 = "timers" /\ rIdx' = 1
                                            ELSE FALSE
             /\ (pc = "ret" /\ op["routine"].status = "err") =>
                  (pc2 \in {pc, "report"} /\ rIdx' = rIdx)
             /\ ((pc = "ret" /\ op["routine"].status # "err" /\ pc2 # pc) \/ (pc = "report" /\ pc2 # pc)) =>
                  IF rIdx < Len(routine_peers)
                    THEN /\ pc2 = "timers"
                         /\ rIdx' = rIdx + 1
                         /\ op'["routine"] = [IdleOp EXCEPT !.peer = routine_peers[rIdx + 1],
                                                            !.status = "run"]
                    ELSE pc2 = "sleep" /\ rIdx' = 0
             /\ pc \in {"timers", "handshake", "send"} =>
                  (rIdx' = rIdx /\ op'["routine"].peer = op["routine"].peer
                     /\ pc2 \in {"timers", "handshake", "send", "ret"})]_vars

C18_Witness ==
  /\ taskPc["routine"] = "report"
  /\ rIdx = 1
  /\ Len(routine_peers) = 2

----------------------------------------------------------------------------
\* C19 as stated: one invocation of handle_routine_task requests a handshake
\* initiation at most once, and returns once the request has been answered,
\* whatever the answer.
C19_AtMostOneRetry ==
  /\ Count(op["routine"].log, IsHandshakeInit) <= 1
  /\ Count(op["routine"].log, IsHandshakeInit) = 1 => taskPc["routine"] # "handshake"

----------------------------------------------------------------------------
\* C20: every send of a handler is addressed to the configured endpoint of
\* the peer the handler runs on and carries the bytes of an engine call of
\* that invocation that returned WriteToNetwork; a session without an
\* endpoint never sends: a WriteToNetwork result for it ends the invocation
\* with Err; the endpoint map holds each peer under its own endpoint only, so
\* inbound dispatch never selects a session without an endpoint.
C20_SendsToEndpoint ==
  /\ \A a \in DOMAIN endpoint_peer_map :
       /\ a # None
       /\ peers[endpoint_peer_map[a]].endpoint = a
  /\ op["socket"].status # "idle" => peers[op["socket"].peer].endpoint # None
  /\ \A t \in Handlers :
       op[t].status # "idle" =>
         LET log == op[t].log
             p == op[t].peer
         IN /\ \A i \in 1..Len(log) :
                 IsSend(log[i]) =>
                   /\ peers[p].endpoint # None
                   /\ log[i].arg = peers[p].endpoint
                   /\ log[i].of \in 1..(i - 1)
                   /\ IsEngineCall(log[log[i].of])
                   /\ log[log[i].of].res = WriteToNetwork
            /\ peers[p].endpoint = None =>
                 /\ Count(log, IsSend) = 0
                 /\ \A i \in 1..Len(log) :
                      log[i].res = WriteToNetwork =>
                        /\ i = Len(log)
                        /\ taskPc[t] = "ret"
                        /\ op[t].status = "err"

C20_Witness ==
  /\ Len(peers) = 2
  /\ peers[1].endpoint = None
  /\ taskPc["tun"] = "ret" /\ op["tun"].peer = 1
  /\ op["tun"].log = <<Ev("encapsulate", "src", WriteToNetwork, 0)>>
  /\ op["tun"].status = "err"
  /\ op["socket"].peer = 2
  /\ Count(op["socket"].log, IsSend) = 2

----------------------------------------------------------------------------
\* C21 as stated: whenever run returns, Ok after the race or Err from startup,
\* a removal has been attempted for every route it installed.
C21_RoutesUnwound ==
  (runPc = "returned" /\ runResult \in {"ok", "err"}) =>
    /\ Len(removed) = Len(installed)
    /\ \A i \in 1..Len(installed) :
         \E j \in 1..Len(removed) : removed[j].route = installed[i]

----------------------------------------------------------------------------
\* C22: a task that requests the lock of a peer's engine holds no lock at that
\* time: the housekeeping handler asks for the handshake initiation with the
\* guard of update_timers dropped, and a drain loop asks for its next turn
\* with the guard of the last turn dropped. So, when sends and writes complete,
\* no task waits for an engine lock for ever: each request is granted, unless
\* the process ends first.
C22_NoSelfDeadlock ==
  /\ [](\A t \in Handlers : WaitsForEngine(t) => \A p \in DOMAIN lock : lock[p] # t)
  /\ \A t \in Handlers : WaitsForEngine(t) ~> ~WaitsForEngine(t)

C22_Witness ==
  /\ taskPc["routine"] = "handshake"
  /\ lock[op["routine"].peer] = "socket"
  /\ taskPc["tun"] = "drain" /\ op["tun"].peer = op["routine"].peer

----------------------------------------------------------------------------
IsFailedSend(e) == IsSend(e) /\ e.res = "err"

\* Task t's send has just failed.
SendFailsBy(t) ==
  /\ Len(op'[t].log) = Len(op[t].log) + 1
  /\ IsFailedSend(op'[t].log[Len(op'[t].log)])

\* C23: in handle_socket_packet and handle_tun_packet a failed send, the first
\* one or one of the drain, is the last event of the invocation, which
\* returns Err with no guard of its own on the peer's engine left alive: no
\* further engine call and no further send is made, and the guard of a drain
\* turn is dropped by the failure, so that the lock is free for the next
\* operation on that peer.
C23_SendFailureEnds ==
  /\ [](\A t \in {"socket", "tun"} : \A i \in 1..Len(op[t].log) :
          IsFailedSend(op[t].log[i]) =>
            /\ i = Len(op[t].log)
            /\ taskPc[t] = "ret"
            /\ op[t].status = "err"
            /\ lock[op[t].peer] # t)
  /\ [][\A t \in {"socket", "tun"} :
          SendFailsBy(t) =>
            /\ taskPc'[t] = "ret"
            /\ lock'[op[t].peer] # t
            /\ lock[op[t].peer] = t => lock'[op[t].peer] = None]_vars

C23_Witness ==
  /\ taskPc["socket"] = "ret"
  /\ Len(op["socket"].log) = 4
  /\ IsDrainHit(op["socket"].log[3])
  /\ IsFailedSend(op["socket"].log[4])
  /\ taskPc["routine"] = "timers" /\ op["routine"].peer = op["socket"].peer
  /\ EngineStepEnabled("routine")

====
